---- MODULE Spec2Model ----
(***************************************************************************)
(* miniwdl-omics-run / miniwdl-omics-submit: reconciliation of remote      *)
(* workflows and workflow versions, readiness polling and name resolution. *)
(*                                                                         *)
(* Strings are sequences of one-character strings, so that the slices      *)
(* name[:128], name[:111] and digest[:16] are computed, not assumed.       *)
(* Remote ids are positive naturals; Python's None id is 0.                *)
(***************************************************************************)
EXTENDS Integers, Sequences, FiniteSets, TLC

VARIABLES
    workflows,   \* remote: the workflows, in listing order; a workflow's id is its index
    versions,    \* remote: the workflow versions, records
                 \* [workflowId, versionName, status, definition]
    runs,        \* remote: the runs started, one record per accepted start_run call
    catalog,     \* remote: the run groups and the run caches, in listing order
    inv,         \* per invocation (one process each): its position and locals
    listing,     \* resolver input: the remote collection that is listed
    sizes,       \* resolver input: how the remote cuts the listing into pages
    answer       \* resolver output: what the resolver returned, logged, or exited with

vars == <<workflows, versions, runs, catalog, inv, listing, sizes, answer>>

---------------------------------------------------------------------------
\* Bounds of the model

\* longest remote collection a resolver is run on
MaxEntries == 3
\* most pages a listing is cut into (a last page takes what is left)
MaxPages == 2
\* most workflows the remote service holds before the invocations start
InitWorkflows == 2
\* most CREATING statuses one polling loop is made to observe
MaxPolls == 2

---------------------------------------------------------------------------
\* Python values

None == 0

Min(a, b) == IF a < b THEN a ELSE b

\* s[:n]
Take(s, n) == SubSeq(s, 1, Min(n, Len(s)))

Rep(c, n) == [k \in 1..n |-> c]

\* dict.get("tags", {}) or {}
TagsOrEmpty(details) == IF "tags" \in DOMAIN details THEN details.tags ELSE <<>>

---------------------------------------------------------------------------
\* Program constants

TAG_KEY == "miniwdl-omics-run"
TAG_VAL == "yes"
BaseNameLen == 128
LegacyNameLen == 111
DigestLen == 16
SubmitNameLen == 111
SubmitDigestLen == 16
RunGroupMaxResults == 2
HttpNotFound == 404
SkippedStatuses == {"DELETED", "FAILED"}
SubmitSkippedStatuses == {"DELETED", "FAILED"}
creating_statuses == {"CREATING"}
failed_statuses == {"FAILED"}
NotFoundCodes == {"NotFoundException", "ResourceNotFoundException"}

\* tags={TAG_KEY: TAG_VAL}
OwnerTags == [k \in {TAG_KEY} |-> TAG_VAL]
\* require_tag=(TAG_KEY, TAG_VAL); no require_tag is the empty tuple
OwnerTag == <<TAG_KEY, TAG_VAL>>
NoTag == <<>>

---------------------------------------------------------------------------
\* The remote service's paginator: the listing cut into pages of the given
\* sizes, then one last page with what is left (possibly empty).

RECURSIVE Paginate(_, _)
Paginate(items, szs) ==
    IF szs = <<>> THEN <<items>>
    ELSE LET n == Min(Head(szs), Len(items))
         IN  <<SubSeq(items, 1, n)>>
                 \o Paginate(SubSeq(items, n + 1, Len(items)), Tail(szs))

\* list_workflows(name=..., type="PRIVATE") items: {id, status, name}
RECURSIVE ListByName(_, _, _)
ListByName(coll, name, k) ==
    IF k > Len(coll) THEN <<>>
    ELSE (IF coll[k].name = name
          THEN <<[id |-> k, name |-> coll[k].name, status |-> coll[k].status]>>
          ELSE <<>>) \o ListByName(coll, name, k + 1)

\* list_run_caches() items: every cache, whatever its name
RECURSIVE ListAll(_, _)
ListAll(coll, k) ==
    IF k > Len(coll) THEN <<>>
    ELSE <<[id |-> k, name |-> coll[k].name, status |-> coll[k].status]>>
             \o ListAll(coll, k + 1)

\* get_workflow(export=[], id=..., type="PRIVATE"): the tags key is present
\* only when the workflow carries tags
GetWorkflow(coll, id) ==
    IF coll[id].tags = <<>> THEN [status |-> coll[id].status]
    ELSE [status |-> coll[id].status, tags |-> coll[id].tags]

\* list_run_groups(name=..., maxResults=2)["items"]: one page, at most maxResults
ListRunGroups(coll, name, maxResults) == Take(ListByName(coll, name, 1), maxResults)

---------------------------------------------------------------------------
\* select_existing_workflow_id

\* faulty variant: the status filter is left out
KeepItem_AnyStatus(item, coll, require_tag) ==
    IF require_tag # NoTag
    THEN LET tags == TagsOrEmpty(GetWorkflow(coll, item.id))
         IN  ~(require_tag[1] \notin DOMAIN tags \/ tags[require_tag[1]] # require_tag[2])
    ELSE TRUE

\* faulty variant: the tag is not looked at
KeepItem_NoTagCheck(item, coll, require_tag) ==
    item.status \notin SkippedStatuses

\* the body of the loop over one item: whether it is appended to matches
KeepItem(item, coll, require_tag) ==
    IF item.status \in SkippedStatuses THEN FALSE
    ELSE IF require_tag # NoTag
         THEN LET key  == require_tag[1]
                  val  == require_tag[2]
                  tags == TagsOrEmpty(GetWorkflow(coll, item.id))
              IN  ~(key \notin DOMAIN tags \/ tags[key] # val)
         ELSE TRUE

RECURSIVE PageMatches(_, _, _)
PageMatches(page, coll, require_tag) ==
    IF page = <<>> THEN <<>>
    ELSE (IF KeepItem(Head(page), coll, require_tag) THEN <<Head(page)>> ELSE <<>>)
             \o PageMatches(Tail(page), coll, require_tag)

RECURSIVE Matches(_, _, _)
Matches(pages, coll, require_tag) ==
    IF pages = <<>> THEN <<>>
    ELSE PageMatches(Head(pages), coll, require_tag)
             \o Matches(Tail(pages), coll, require_tag)

\* faulty variant: the last match is returned
ChosenMatch_Last(matches) == matches[Len(matches)]

\* which of the matches is returned
ChosenMatch(matches) == matches[1]

select_existing_workflow_id(pages, coll, require_tag) ==
    LET matches == Matches(pages, coll, require_tag)
    IN  IF matches = <<>>
        THEN [id |-> None, warnings |-> 0, exit |-> "none"]
        ELSE [id |-> ChosenMatch(matches).id,
              warnings |-> IF Len(matches) > 1 THEN 1 ELSE 0,
              exit |-> "none"]

---------------------------------------------------------------------------
\* resolve_cache_id, resolve_run_group_id, and the lookup loop of the submit
\* tool's ensure_omics_workflow

\* faulty variant: the first matching id is kept
CacheLoopItem_KeepFirst(acc, existing, cache_name) ==
    IF existing.name = cache_name
    THEN [existing_count |-> acc.existing_count + 1,
          existing_id |-> IF acc.existing_id = None THEN existing.id
                          ELSE acc.existing_id]
    ELSE acc

\* the loop state [existing_count, existing_id] after one more item
CacheLoopItem(acc, existing, cache_name) ==
    IF existing.name = cache_name
    THEN [existing_count |-> acc.existing_count + 1, existing_id |-> existing.id]
    ELSE acc

RECURSIVE CacheLoopPage(_, _, _)
CacheLoopPage(acc, page, cache_name) ==
    IF page = <<>> THEN acc
    ELSE CacheLoopPage(CacheLoopItem(acc, Head(page), cache_name), Tail(page), cache_name)

RECURSIVE CacheLoop(_, _, _)
CacheLoop(acc, pages, cache_name) ==
    IF pages = <<>> THEN acc
    ELSE CacheLoop(CacheLoopPage(acc, Head(pages), cache_name), Tail(pages), cache_name)

resolve_cache_id(pages, cache_name, cache_id) ==
    IF cache_id # None THEN [id |-> cache_id, warnings |-> 0, exit |-> "none"]
    ELSE LET acc == CacheLoop([existing_count |-> 0, existing_id |-> None],
                              pages, cache_name)
         IN  IF acc.existing_id # None
             THEN [id |-> acc.existing_id,
                   warnings |-> IF acc.existing_count > 1 THEN 1 ELSE 0,
                   exit |-> "none"]
             ELSE [id |-> None, warnings |-> 0, exit |-> "1"]

resolve_run_group_id(groups) ==
    IF groups = <<>> THEN [id |-> None, warnings |-> 0, exit |-> "1"]
    ELSE [id |-> groups[1].id,
          warnings |-> IF Len(groups) > 1 THEN 1 ELSE 0,
          exit |-> "none"]

SubmitLoopItem(acc, existing) ==
    IF existing.status \in SubmitSkippedStatuses THEN acc
    ELSE [existing_count |-> acc.existing_count + 1, existing_id |-> existing.id]

RECURSIVE SubmitLoopPage(_, _)
SubmitLoopPage(acc, page) ==
    IF page = <<>> THEN acc
    ELSE SubmitLoopPage(SubmitLoopItem(acc, Head(page)), Tail(page))

RECURSIVE SubmitLoop(_, _)
SubmitLoop(acc, pages) ==
    IF pages = <<>> THEN acc
    ELSE SubmitLoop(SubmitLoopPage(acc, Head(pages)), Tail(pages))

\* ensure_omics_workflow up to its return of an existing id (None: it goes on to create)
submit_existing_workflow(pages) ==
    LET acc == SubmitLoop([existing_count |-> 0, existing_id |-> None], pages)
    IN  [id |-> acc.existing_id,
         warnings |-> IF acc.existing_id # None /\ acc.existing_count > 1 THEN 1 ELSE 0,
         exit |-> "none"]

---------------------------------------------------------------------------
\* The WDL document of an invocation: wdl_exe.name and wdl_exe.digest

WdlName == <<"w", "f">>
DigestA == Rep("a", 16) \o <<"1">>
DigestB == Rep("b", 16) \o <<"1">>
Digests == {DigestA, DigestB}

\* hashlib.sha256 of the zip (submit tool): some other hex string, one per document
ZipSha256(digest) == <<"5">> \o digest

\* wdl_exe.name[:128]
BaseName(name) == Take(name, BaseNameLen)
\* faulty variant: the digest is left out of the name
LegacyName_NoDigest(name, digest) == Take(name, LegacyNameLen)

\* wdl_exe.name[:111] + "." + wdl_exe.digest[:16]
LegacyName(name, digest) == Take(name, LegacyNameLen) \o <<".">> \o Take(digest, DigestLen)
\* faulty variant: the version is named by the whole digest
VersionName_WholeDigest(digest) == digest

\* wdl_exe.digest[:16]
VersionName(digest) == Take(digest, DigestLen)
\* wdl_exe.name[:111] + "." + wdl_zip_sha256[:16]
SubmitName(name, sha) == Take(name, SubmitNameLen) \o <<".">> \o Take(sha, SubmitDigestLen)

---------------------------------------------------------------------------
\* The remote service

Invocations == {"i1", "i2"}

\* the sizes of the pages the service answers list_workflows with: one item,
\* an empty page, then the rest
RemotePageSizes == <<1, 0>>

HasVersion(wid, vname) ==
    \E v \in versions : v.workflowId = wid /\ v.versionName = vname

TheVersion(wid, vname) ==
    CHOOSE v \in versions : v.workflowId = wid /\ v.versionName = vname

\* what get_workflow_version can answer: the version's details when it exists,
\* a not-found error when it does not, and at any time some other client error
ErrorCodes == {"NotFoundException", "ResourceNotFoundException", "AccessDeniedException"}
HttpStatuses == {HttpNotFound, 403}

OkResponse(status) == [kind |-> "ok", status |-> status, code |-> "", http |-> 200]
ErrorResponse(code, http) == [kind |-> "error", status |-> "None", code |-> code, http |-> http]
NoResponse == [kind |-> "none", status |-> "None", code |-> "", http |-> 0]

IsNotFoundError(resp) ==
    resp.kind = "error" /\ (resp.code \in NotFoundCodes \/ resp.http = HttpNotFound)

GetWorkflowVersionResponses(wid, vname) ==
    LET errors == {ErrorResponse(c, h) : c \in ErrorCodes, h \in HttpStatuses}
    IN  IF HasVersion(wid, vname)
        THEN {OkResponse(TheVersion(wid, vname).status)}
                 \cup {e \in errors : ~IsNotFoundError(e)}
        ELSE errors

\* faulty variant: the HTTP status is not looked at
not_found_CodeOnly(resp) == resp.code \in NotFoundCodes

\* the except clause of ensure_omics_workflow_and_version: whether the error is
\* swallowed (not found) or raised again
not_found(resp) ==
    LET code   == resp.code
        status == resp.http
    IN  code \in NotFoundCodes \/ status = HttpNotFound

\* faulty variant: a workflow of the same name is updated in place
create_workflow_Update(coll, workflow_name, tags, definitionZip) ==
    IF \E k \in 1..Len(coll) : coll[k].name = workflow_name
    THEN [k \in 1..Len(coll) |->
             IF coll[k].name = workflow_name
             THEN [name |-> workflow_name, status |-> "CREATING", tags |-> tags,
                   definition |-> definitionZip]
             ELSE coll[k]]
    ELSE Append(coll, [name |-> workflow_name, status |-> "CREATING", tags |-> tags,
                       definition |-> definitionZip])

\* create_workflow: a new workflow, CREATING, at the end of the listing
create_workflow(coll, workflow_name, tags, definitionZip) ==
    Append(coll, [name |-> workflow_name, status |-> "CREATING", tags |-> tags,
                  definition |-> definitionZip])

\* faulty variant: the new version takes the place of the workflow's other versions
create_workflow_version_InPlace(vers, workflowId, versionName, definitionZip) ==
    {v \in vers : v.workflowId # workflowId}
        \cup {[workflowId |-> workflowId, versionName |-> versionName,
               status |-> "CREATING", definition |-> definitionZip]}

\* create_workflow_version: one more version of the workflow, CREATING
create_workflow_version(vers, workflowId, versionName, definitionZip) ==
    vers \cup {[workflowId |-> workflowId, versionName |-> versionName,
                status |-> "CREATING", definition |-> definitionZip]}

\* faulty variant: the base workflow is created without the tag
CreateTags_None(r) == <<>>

\* the tags create_omics_workflow is called with
CreateTags(r) == IF r.tool = "run" /\ ~r.legacy THEN OwnerTags ELSE <<>>

---------------------------------------------------------------------------
\* The polling loops: what one fetched status leads to

\* faulty variant: the loop ends on any status that is not failed
await_omics_entity_NoCreatingCheck(status) ==
    IF status \in failed_statuses THEN "exit2" ELSE "break"

\* faulty variant: a failed status ends the loop like a ready one
await_omics_entity_FailedIgnored(status) ==
    IF status \notin creating_statuses THEN "break" ELSE "sleep"

\* faulty variant: the loop ends at the first fetch, whatever the status
await_omics_entity_NeverWaits(status) == "break"

await_omics_entity(status) ==
    IF status \in failed_statuses THEN "exit2"
    ELSE IF status \notin creating_statuses THEN "break"
    ELSE "sleep"

\* faulty variant: the submit tool's loop gives up waiting on a CREATING status
submit_await_omics_workflow_GivesUp(status) ==
    IF status = "FAILED" THEN "exit2" ELSE "break"

\* the submit tool's await_omics_workflow
submit_await_omics_workflow(status) ==
    IF status = "FAILED" THEN "exit2"
    ELSE IF status # "CREATING" THEN "break"
    ELSE "sleep"

\* what await_omics_entity returns to its caller: it has no return statement
AwaitReturn(last_details) == "None"

---------------------------------------------------------------------------
\* The command line: argparse, the run options and start_run_options

\* an optional argument: <<>> is Python's None, <<v>> is the value v
NoneOpt == <<>>
Some(v) == <<v>>
IsNone(val) == val = NoneOpt
\* the value of an option, for an unset one a placeholder that is never sent
OptValue(val) == IF val = NoneOpt THEN "None" ELSE val[1]

S3Scheme == <<"s", "3", ":", "/", "/">>

\* isinstance(x, str) and x.startswith("s3://")
is_s3_uri(x) == Len(x) >= Len(S3Scheme) /\ SubSeq(x, 1, Len(S3Scheme)) = S3Scheme

CACHE_BEHAVIOR_ALIASES ==
    [k \in {"no", "failure", "always"} |->
        IF k = "no" THEN "NO_CACHE"
        ELSE IF k = "failure" THEN "CACHE_ON_FAILURE"
        ELSE "CACHE_ALWAYS"]

\* faulty variant: the canonical values are not added to the table
CACHE_BEHAVIOR_MAP_AliasesOnly == CACHE_BEHAVIOR_ALIASES

\* _CACHE_BEHAVIOR_MAP: the alias table after the loop that maps every canonical value to itself
CACHE_BEHAVIOR_MAP ==
    LET canonical == {CACHE_BEHAVIOR_ALIASES[k] : k \in DOMAIN CACHE_BEHAVIOR_ALIASES}
    IN  [k \in DOMAIN CACHE_BEHAVIOR_ALIASES \cup canonical |->
            IF k \in canonical THEN k ELSE CACHE_BEHAVIOR_ALIASES[k]]

StorageTypeChoices == {"static", "STATIC", "dynamic", "DYNAMIC"}
RetentionModeChoices == {"retain", "RETAIN", "remove", "REMOVE"}

\* str.upper on the option values in play; other strings have no lower-case letter
UpperTable ==
    [v \in {"static", "dynamic", "retain", "remove", "Static",
            "cache_always", "Cache_Always", "no", "failure", "always"} |->
        CASE v = "static" -> "STATIC"
          [] v = "dynamic" -> "DYNAMIC"
          [] v = "retain" -> "RETAIN"
          [] v = "remove" -> "REMOVE"
          [] v = "Static" -> "STATIC"
          [] v = "cache_always" -> "CACHE_ALWAYS"
          [] v = "Cache_Always" -> "CACHE_ALWAYS"
          [] v = "no" -> "NO"
          [] v = "failure" -> "FAILURE"
          [] v = "always" -> "ALWAYS"]

upper(v) == IF v \in DOMAIN UpperTable THEN UpperTable[v] ELSE v

\* the transform of a row of mappings applied to a value
Transform(transform, v) ==
    IF transform = "upper" THEN upper(v)
    ELSE IF transform = "cache_behavior_map"
    THEN (IF v \in DOMAIN CACHE_BEHAVIOR_MAP THEN CACHE_BEHAVIOR_MAP[v] ELSE "KeyError")
    ELSE v

\* faulty variant: the priority row is missing
mappings_NoPriority ==
    <<[attr |-> "name", key |-> "name", transform |-> "None"],
      [attr |-> "run_group_id", key |-> "runGroupId", transform |-> "None"],
      [attr |-> "storage_capacity", key |-> "storageCapacity", transform |-> "None"],
      [attr |-> "storage_type", key |-> "storageType", transform |-> "upper"],
      [attr |-> "cache_id", key |-> "cacheId", transform |-> "None"],
      [attr |-> "cache_behavior", key |-> "cacheBehavior",
       transform |-> "cache_behavior_map"],
      [attr |-> "retention_mode", key |-> "retentionMode", transform |-> "upper"]>>

mappings ==
    <<[attr |-> "name", key |-> "name", transform |-> "None"],
      [attr |-> "priority", key |-> "priority", transform |-> "None"],
      [attr |-> "run_group_id", key |-> "runGroupId", transform |-> "None"],
      [attr |-> "storage_capacity", key |-> "storageCapacity", transform |-> "None"],
      [attr |-> "storage_type", key |-> "storageType", transform |-> "upper"],
      [attr |-> "cache_id", key |-> "cacheId", transform |-> "None"],
      [attr |-> "cache_behavior", key |-> "cacheBehavior",
       transform |-> "cache_behavior_map"],
      [attr |-> "retention_mode", key |-> "retentionMode", transform |-> "upper"]>>

\* the dict start_run_options returns
start_run_options(args) ==
    LET rows == {k \in 1..Len(mappings) : ~IsNone(args[mappings[k].attr])}
    IN  [key \in {mappings[k].key : k \in rows} |->
            LET k == CHOOSE j \in rows : mappings[j].key = key
            IN  Transform(mappings[k].transform, OptValue(args[mappings[k].attr]))]

\* the parsed command line of miniwdl-omics-run; doc_ok, inputs_given and
\* inputs_ok stand for the WDL document and the run inputs on the command line
NoArgs ==
    [output_uri |-> NoneOpt, role |-> NoneOpt, role_arn |-> NoneOpt,
     doc_ok |-> TRUE, inputs_given |-> FALSE, inputs_ok |-> TRUE,
     name |-> NoneOpt, priority |-> NoneOpt,
     run_group |-> NoneOpt, run_group_id |-> NoneOpt,
     storage_capacity |-> NoneOpt, storage_type |-> NoneOpt,
     cache |-> NoneOpt, cache_id |-> NoneOpt, cache_behavior |-> NoneOpt,
     retention_mode |-> NoneOpt]

\* arg_parser().parse_args of miniwdl-omics-run: TRUE when argparse accepts the
\* command line (it ends the process with its own status otherwise)
run_parse_args(argv) ==
    /\ IsNone(argv.output_uri) \/ is_s3_uri(OptValue(argv.output_uri))
    /\ IsNone(argv.run_group) \/ IsNone(argv.run_group_id)
    /\ IsNone(argv.storage_type) \/ OptValue(argv.storage_type) \in StorageTypeChoices
    /\ IsNone(argv.retention_mode)
           \/ OptValue(argv.retention_mode) \in RetentionModeChoices
    /\ IsNone(argv.cache) \/ IsNone(argv.cache_id)
    /\ IsNone(argv.cache_behavior)
           \/ OptValue(argv.cache_behavior) \in DOMAIN CACHE_BEHAVIOR_MAP

\* arg_parser().parse_args of miniwdl-omics-submit: --role-arn and --output-uri
\* are required
submit_parse_args(argv) ==
    /\ ~IsNone(argv.role_arn)
    /\ ~IsNone(argv.output_uri)
    /\ is_s3_uri(OptValue(argv.output_uri))

\* the status argparse ends the process with when it rejects the command line
ArgparseExit == "2"

\* main's checks of the document and the arguments, up to resolve_iam_role_arn
\* or runner_input: the exit status, or how main goes on
validate(args, build) ==
    IF ~args.doc_ok THEN "1"
    ELSE IF ~build
    THEN IF IsNone(args.output_uri) THEN "1"
         ELSE IF IsNone(args.role) /\ IsNone(args.role_arn) THEN "1"
         ELSE IF ~IsNone(args.role) /\ ~IsNone(args.role_arn) THEN "1"
         ELSE IF ~IsNone(args.role) THEN "resolve_role"
         ELSE "runner_input"
    ELSE IF args.inputs_given \/ ~IsNone(args.output_uri) THEN "1"
         ELSE "ok"

---------------------------------------------------------------------------
\* One invocation (one process of either tool)

NewInvocation(tool, legacy, build, name, digest, args, after) ==
    [pc |-> "init", tool |-> tool, legacy |-> legacy, build |-> build,
     name |-> name, digest |-> digest, args |-> args, after |-> after, calls |-> <<>>,
     workflow_id |-> None, version_name |-> <<>>, existing_version |-> "None",
     wdl_zip |-> FALSE, awaiting |-> "none",
     zips |-> 0, creates_wf |-> 0, creates_ver |-> 0, starts |-> 0,
     awaits |-> 0, fetches |-> 0, sleeps |-> 0, creating |-> 0,
     last_details |-> "None", await_ret |-> "unset",
     warnings |-> 0, exit |-> "none", printed |-> "none", error |-> "none",
     lookup |-> NoResponse, fetched_wf |-> {}, fetched_ver |-> {},
     last_wf |-> "None", last_ver |-> "None",
     start_kwargs |-> [workflowId |-> None, workflowVersionName |-> <<>>,
                       requestId |-> "none", options |-> <<>>]]

Off == [NewInvocation("run", FALSE, FALSE, WdlName, DigestA, NoArgs, "none")
            EXCEPT !.pc = "off"]

\* the process ends with an exit status before it printed anything
Exited(r, status) == [r EXCEPT !.pc = "exited", !.exit = status]

\* one more remote call in the invocation's log of calls
Called(r, call) == [r EXCEPT !.calls = Append(@, call)]

\* a call of await_omics_entity / await_omics_workflow begins
BeginAwait(r, what) ==
    [r EXCEPT !.pc = "await_fetch", !.awaiting = what,
              !.fetches = 0, !.sleeps = 0, !.creating = 0, !.last_details = "None",
              !.await_ret = "unset"]

RemoteUnchanged == UNCHANGED <<workflows, versions, runs>>
\* the resolver variables and the catalog, which no step of an invocation changes
ResolverUnchanged == UNCHANGED <<listing, sizes, answer, catalog>>

\* main of miniwdl-omics-run from parse_args to the creation of the omics client;
\* role_ok: whether the IAM service resolves --role
run_main_start(r, role_ok) ==
    IF ~run_parse_args(r.args) THEN Exited(r, ArgparseExit)
    ELSE LET v == validate(r.args, r.build)
         IN  IF v = "1" THEN Exited(r, "1")
             ELSE IF v = "resolve_role" /\ ~role_ok THEN Exited(r, "1")
             ELSE IF v # "ok" /\ ~r.args.inputs_ok THEN Exited(r, "1")
             ELSE [r EXCEPT !.pc = "run_group",
                            !.args.role_arn = IF v = "resolve_role"
                                              THEN Some("resolved") ELSE @]

\* main of miniwdl-omics-submit from parse_args to the creation of the omics client
submit_main_start(r) ==
    IF ~submit_parse_args(r.args) THEN Exited(r, ArgparseExit)
    ELSE IF ~r.args.inputs_ok THEN Exited(r, "1")
    ELSE [r EXCEPT !.pc = "submit_ensure"]

\* main up to the first call to the omics service
Start(i) ==
    /\ inv[i].pc = "init"
    /\ IF inv[i].after = "none" THEN TRUE ELSE inv[inv[i].after].pc = "done"
    /\ \E role_ok \in BOOLEAN :
           inv' = [inv EXCEPT ![i] = IF inv[i].tool = "submit"
                                     THEN submit_main_start(inv[i])
                                     ELSE run_main_start(inv[i], role_ok)]
    /\ RemoteUnchanged /\ ResolverUnchanged

\* if args.run_group: args.run_group_id = resolve_run_group_id(...)
RunGroup(i) ==
    /\ inv[i].pc = "run_group"
    /\ LET r == inv[i]
           name == OptValue(r.args.run_group)
       IN  inv' = [inv EXCEPT ![i] =
               IF IsNone(r.args.run_group) THEN [r EXCEPT !.pc = "select"]
               ELSE LET found == resolve_run_group_id(
                                     ListRunGroups(catalog.run_groups, name,
                                                   RunGroupMaxResults))
                        c     == Called(r, "list_run_groups")
                    IN  IF found.exit # "none" THEN Exited(c, found.exit)
                        ELSE [c EXCEPT !.pc = "select",
                                       !.warnings = @ + found.warnings,
                                       !.args.run_group_id = Some(found.id)]]
    /\ RemoteUnchanged /\ ResolverUnchanged

\* ensure_omics_workflow_legacy / ensure_omics_workflow_and_version: the call of
\* select_existing_workflow_id
Select(i) ==
    /\ inv[i].pc = "select"
    /\ LET r       == Called(inv[i], "list_workflows")
           name    == IF r.legacy THEN LegacyName(r.name, r.digest) ELSE BaseName(r.name)
           require == IF r.legacy THEN NoTag ELSE OwnerTag
           pages   == Paginate(ListByName(workflows, name, 1), RemotePageSizes)
           found   == select_existing_workflow_id(pages, workflows, require)
       IN  inv' = [inv EXCEPT ![i] =
               IF found.id = None
               THEN [r EXCEPT !.pc = "create_workflow", !.warnings = @ + found.warnings]
               ELSE [BeginAwait(r, "workflow") EXCEPT
                        !.workflow_id = found.id,
                        !.warnings = @ + found.warnings,
                        !.fetched_wf = {workflows[found.id].status}]]
    /\ RemoteUnchanged /\ ResolverUnchanged

\* the submit tool's ensure_omics_workflow up to its return of an existing id
SubmitEnsure(i) ==
    /\ inv[i].pc = "submit_ensure"
    /\ LET r     == Called(inv[i], "list_workflows")
           name  == SubmitName(r.name, ZipSha256(r.digest))
           pages == Paginate(ListByName(workflows, name, 1), RemotePageSizes)
           found == submit_existing_workflow(pages)
           z     == [r EXCEPT !.zips = @ + 1, !.wdl_zip = TRUE,
                              !.warnings = @ + found.warnings]
       IN  inv' = [inv EXCEPT ![i] =
               IF found.id = None
               THEN [z EXCEPT !.pc = "create_workflow"]
               ELSE [BeginAwait(z, "workflow") EXCEPT
                        !.workflow_id = found.id,
                        !.fetched_wf = {workflows[found.id].status}]]
    /\ RemoteUnchanged /\ ResolverUnchanged

\* zip_wdl when the caller holds no zip yet, then create_omics_workflow
CreateWorkflow(i) ==
    /\ inv[i].pc = "create_workflow"
    /\ LET r    == Called(inv[i], "create_workflow")
           name == IF r.tool = "submit" THEN SubmitName(r.name, ZipSha256(r.digest))
                   ELSE IF r.legacy THEN LegacyName(r.name, r.digest)
                   ELSE BaseName(r.name)
       IN  /\ workflows' = create_workflow(workflows, name, CreateTags(r), r.digest)
           /\ inv' = [inv EXCEPT ![i] =
                  [BeginAwait(r, "workflow") EXCEPT
                      !.workflow_id = Len(workflows) + 1,
                      !.creates_wf = @ + 1,
                      !.zips = IF r.tool = "submit" THEN @ ELSE @ + 1,
                      !.wdl_zip = IF r.tool = "run" /\ ~r.legacy THEN TRUE ELSE @]]
    /\ UNCHANGED <<versions, runs>> /\ ResolverUnchanged

\* the status the polling loop's fetch_fn returns
FetchedStatus(r) ==
    IF r.awaiting = "workflow" THEN GetWorkflow(workflows, r.workflow_id).status
    ELSE TheVersion(r.workflow_id, r.version_name).status

\* where the caller goes on when the polling loop returns
AfterAwait(r) ==
    IF r.awaiting = "version" THEN "ensured"
    ELSE IF r.tool = "submit" THEN "start_run"
    ELSE IF r.legacy THEN "ensured"
    ELSE "get_version"

\* one iteration of the polling loop up to its sleep
AwaitFetch(i) ==
    /\ inv[i].pc = "await_fetch"
    /\ LET r       == inv[i]
           status  == FetchedStatus(r)
           outcome == IF r.tool = "submit" THEN submit_await_omics_workflow(status)
                      ELSE await_omics_entity(status)
           f       == [r EXCEPT !.fetches = @ + 1, !.last_details = status,
                          !.fetched_wf = IF r.awaiting = "workflow"
                                         THEN @ \cup {status} ELSE @,
                          !.fetched_ver = IF r.awaiting = "version"
                                          THEN @ \cup {status} ELSE @,
                          !.last_wf = IF r.awaiting = "workflow" THEN status ELSE @,
                          !.last_ver = IF r.awaiting = "version" THEN status ELSE @]
       IN  /\ outcome = "sleep" => r.creating < MaxPolls
           /\ inv' = [inv EXCEPT ![i] =
                  IF outcome = "exit2"
                  THEN [f EXCEPT !.pc = "exited", !.exit = "2"]
                  ELSE IF outcome = "break"
                  THEN [f EXCEPT !.pc = AfterAwait(r), !.awaits = @ + 1,
                                 !.await_ret = AwaitReturn(status),
                                 !.calls = Append(@, IF r.awaiting = "workflow"
                                                     THEN "awaited_workflow"
                                                     ELSE "awaited_version")]
                  ELSE [f EXCEPT !.pc = "await_sleep", !.creating = @ + 1]]
    /\ RemoteUnchanged /\ ResolverUnchanged

\* time.sleep(1)
AwaitSleep(i) ==
    /\ inv[i].pc = "await_sleep"
    /\ inv' = [inv EXCEPT ![i].pc = "await_fetch", ![i].sleeps = @ + 1]
    /\ RemoteUnchanged /\ ResolverUnchanged

\* the try/except around get_workflow_version
\* faulty variant: only a version this invocation created is waited for
version_needs_await_CreatedOnly(existing_version) == existing_version = "None"

\* if not existing_version or existing_version.get("status") == "CREATING"
version_needs_await(existing_version) ==
    existing_version = "None" \/ existing_version = "CREATING"

GetVersion(i) ==
    /\ inv[i].pc = "get_version"
    /\ LET r     == Called(inv[i], "get_workflow_version")
           vname == VersionName(r.digest)
       IN  \E resp \in GetWorkflowVersionResponses(r.workflow_id, vname) :
             LET g == [r EXCEPT !.version_name = vname, !.lookup = resp]
             IN  inv' = [inv EXCEPT ![i] =
                   IF resp.kind = "ok"
                   THEN IF version_needs_await(resp.status)
                        THEN [BeginAwait(g, "version") EXCEPT
                                 !.existing_version = resp.status,
                                 !.fetched_ver = {resp.status},
                                 !.last_ver = resp.status]
                        ELSE [g EXCEPT !.pc = "ensured",
                                 !.existing_version = resp.status,
                                 !.fetched_ver = {resp.status},
                                 !.last_ver = resp.status]
                   ELSE IF not_found(resp)
                   THEN [g EXCEPT !.pc = "create_version"]
                   ELSE [g EXCEPT !.pc = "exited", !.exit = "raised",
                                  !.error = resp.code]]
    /\ RemoteUnchanged /\ ResolverUnchanged

\* faulty variant: the source is packaged again for the version
zip_for_version_Again(wdl_zip) == 1

\* if wdl_zip is None: wdl_zip = zip_wdl(...): the calls of zip_wdl this makes
zip_for_version(wdl_zip) == IF wdl_zip THEN 0 ELSE 1

\* zip_wdl if not done yet, then create_workflow_version; the service refuses
\* a version name the workflow already has. The caught error (lookup) is out of
\* scope once the except clause is left.
CreateVersion(i) ==
    /\ inv[i].pc = "create_version"
    /\ LET r == Called(inv[i], "create_workflow_version")
           c == [r EXCEPT !.zips = @ + zip_for_version(r.wdl_zip), !.wdl_zip = TRUE,
                          !.creates_ver = @ + 1, !.lookup = NoResponse]
       IN  IF HasVersion(r.workflow_id, r.version_name)
           THEN /\ inv' = [inv EXCEPT ![i] =
                       [c EXCEPT !.pc = "exited", !.exit = "raised",
                                 !.error = "ConflictException"]]
                /\ UNCHANGED versions
           ELSE /\ versions' = create_workflow_version(versions, r.workflow_id,
                                                       r.version_name, r.digest)
                /\ inv' = [inv EXCEPT ![i] = BeginAwait(c, "version")]
    /\ UNCHANGED <<workflows, runs>> /\ ResolverUnchanged

\* main after ensure returned, for a run: the run cache is resolved if one is
\* asked for, and --cache-behavior without a cache ends the process
resolve_cache(r) ==
    IF ~IsNone(r.args.cache) \/ ~IsNone(r.args.cache_id)
    THEN LET found == resolve_cache_id(
                          Paginate(ListAll(catalog.caches, 1), RemotePageSizes),
                          OptValue(r.args.cache),
                          IF IsNone(r.args.cache_id) THEN None
                          ELSE OptValue(r.args.cache_id))
             c     == IF IsNone(r.args.cache_id) THEN Called(r, "list_run_caches")
                      ELSE r
         IN  IF found.exit # "none" THEN Exited(c, found.exit)
             ELSE [c EXCEPT !.pc = "start_run",
                            !.warnings = @ + found.warnings,
                            !.args.cache_id = Some(found.id)]
    ELSE IF ~IsNone(r.args.cache_behavior) THEN Exited(r, "1")
    ELSE [r EXCEPT !.pc = "start_run"]

\* faulty variant: --build does not end main
after_ensure_IgnoresBuild(r) == resolve_cache(r)

\* if args.build: print(json.dumps({"workflowId": workflow_id})); sys.exit(0)
after_ensure(r) ==
    IF r.build
    THEN [r EXCEPT !.pc = "done", !.printed = "build", !.exit = "0"]
    ELSE resolve_cache(r)

\* main after ensure returned: --build prints the workflow id and exits 0
Ensured(i) ==
    /\ inv[i].pc = "ensured"
    /\ inv' = [inv EXCEPT ![i] = after_ensure(inv[i])]
    /\ RemoteUnchanged /\ ResolverUnchanged

\* the keyword arguments of start_run; uuid4 is a value no other invocation
\* draws, here the invocation's own name; the submit tool passes no requestId
\* and no run option
StartKwargs(r, uuid4) ==
    [workflowId |-> r.workflow_id,
     workflowVersionName |-> r.version_name,
     requestId |-> IF r.tool = "run" THEN uuid4 ELSE "none",
     options |-> IF r.tool = "run" THEN start_run_options(r.args) ELSE <<>>]

\* omics.start_run(**start_kwargs): the service starts a run, or refuses, and
\* then the error propagates
StartRun(i) ==
    /\ inv[i].pc = "start_run"
    /\ LET r == [Called(inv[i], "start_run") EXCEPT
                    !.starts = @ + 1, !.start_kwargs = StartKwargs(inv[i], i)]
       IN  \E accepted \in BOOLEAN :
             IF accepted
             THEN /\ inv' = [inv EXCEPT ![i] = [r EXCEPT !.pc = "print"]]
                  /\ runs' = runs \cup {[by |-> i, kwargs |-> r.start_kwargs]}
             ELSE /\ inv' = [inv EXCEPT ![i] =
                         [r EXCEPT !.pc = "exited", !.exit = "raised",
                                   !.error = "StartRunError"]]
                  /\ UNCHANGED runs
    /\ UNCHANGED <<workflows, versions>> /\ ResolverUnchanged

\* print(json.dumps(run_info, indent=2))
PrintRunInfo(i) ==
    /\ inv[i].pc = "print"
    /\ inv' = [inv EXCEPT ![i].pc = "done", ![i].printed = "run", ![i].exit = "0"]
    /\ RemoteUnchanged /\ ResolverUnchanged

---------------------------------------------------------------------------
\* The remote service provisions what was created: CREATING ends in ACTIVE or FAILED

WorkflowSettles(w, status) ==
    /\ workflows[w].status = "CREATING"
    /\ workflows' = [workflows EXCEPT ![w].status = status]
    /\ UNCHANGED <<versions, runs, inv>> /\ ResolverUnchanged

VersionSettles(v, status) ==
    /\ v.status = "CREATING"
    /\ versions' = (versions \ {v}) \cup {[v EXCEPT !.status = status]}
    /\ UNCHANGED <<workflows, runs, inv>> /\ ResolverUnchanged

RemoteStep ==
    \/ \E w \in 1..Len(workflows), s \in {"ACTIVE", "FAILED"} : WorkflowSettles(w, s)
    \/ \E v \in versions, s \in {"ACTIVE", "FAILED"} : VersionSettles(v, s)

RunToolStep(i) ==
    \/ Start(i)
    \/ RunGroup(i)
    \/ Select(i)
    \/ CreateWorkflow(i)
    \/ AwaitFetch(i)
    \/ AwaitSleep(i)
    \/ GetVersion(i)
    \/ CreateVersion(i)
    \/ Ensured(i)
    \/ StartRun(i)
    \/ PrintRunInfo(i)

---------------------------------------------------------------------------
\* The name resolvers run on a listing (the pure part of each, on drawn inputs)

Idle == [op |-> "idle", id |-> None, warnings |-> 0, exit |-> "none"]

Answer(op, res) == [op |-> op, id |-> res.id, warnings |-> res.warnings, exit |-> res.exit]

MainUnchanged == UNCHANGED <<workflows, versions, runs, catalog, inv, listing, sizes>>

ResolveWorkflow(require_tag) ==
    /\ answer = Idle
    /\ answer' = Answer(IF require_tag = NoTag THEN "workflow" ELSE "tagged_workflow",
                        select_existing_workflow_id(
                            Paginate(ListByName(listing, WdlName, 1), sizes),
                            listing, require_tag))
    /\ MainUnchanged

ResolveSubmitWorkflow ==
    /\ answer = Idle
    /\ answer' = Answer("submit_workflow",
                        submit_existing_workflow(
                            Paginate(ListByName(listing, WdlName, 1), sizes)))
    /\ MainUnchanged

ResolveRunGroup ==
    /\ answer = Idle
    /\ answer' = Answer("run_group",
                        resolve_run_group_id(
                            ListRunGroups(listing, WdlName, RunGroupMaxResults)))
    /\ MainUnchanged

ResolveCache(cache_id) ==
    /\ answer = Idle
    /\ answer' = Answer(IF cache_id = None THEN "cache" ELSE "cache_by_id",
                        resolve_cache_id(Paginate(ListAll(listing, 1), sizes),
                                         WdlName, cache_id))
    /\ MainUnchanged

\* a cache id given with --cache-id
GivenCacheId == MaxEntries + 1

NextResolve ==
    \/ \E t \in {NoTag, OwnerTag} : ResolveWorkflow(t)
    \/ ResolveSubmitWorkflow
    \/ ResolveRunGroup
    \/ \E c \in {None, GivenCacheId} : ResolveCache(c)

---------------------------------------------------------------------------
\* Initial states

SeqsUpTo(S, n) == UNION {[1..k -> S] : k \in 0..n}

WrongTags == [k \in {TAG_KEY} |-> "no"]
OtherName == <<"x">>

\* the definition of an entity the service held before the invocations started
SeedDefinition == DigestA

Entry(name, status, tags) ==
    [name |-> name, status |-> status, tags |-> tags, definition |-> SeedDefinition]

\* a run group or a run cache
Listed(name, status) == [name |-> name, status |-> status]

Entries ==
    {Entry(WdlName, "ACTIVE", OwnerTags), Entry(WdlName, "CREATING", OwnerTags),
     Entry(WdlName, "ACTIVE", <<>>), Entry(WdlName, "ACTIVE", WrongTags),
     Entry(WdlName, "FAILED", OwnerTags), Entry(WdlName, "DELETED", OwnerTags),
     Entry(OtherName, "ACTIVE", OwnerTags)}

PageSizeChoices == {0, 1, 2}

NoInvocations == [i \in Invocations |-> Off]

NoCatalog == [run_groups |-> <<>>, caches |-> <<>>]

InitResolve ==
    /\ listing \in SeqsUpTo(Entries, MaxEntries)
    /\ sizes \in SeqsUpTo(PageSizeChoices, MaxPages)
    /\ answer = Idle
    /\ workflows = <<>>
    /\ versions = {}
    /\ runs = {}
    /\ catalog = NoCatalog
    /\ inv = NoInvocations

\* a workflow the service holds at the start, with the status of its version
\* named by DigestA ("None": it has no such version)
Seed(name, status, tags, ver) ==
    [name |-> name, status |-> status, tags |-> tags, ver |-> ver]

BaseSeeds ==
    {Seed(BaseName(WdlName), "ACTIVE", OwnerTags, v) :
         v \in {"None", "ACTIVE", "CREATING", "FAILED"}}
    \cup {Seed(BaseName(WdlName), s, OwnerTags, "None") :
         s \in {"CREATING", "FAILED", "DELETED"}}
    \cup {Seed(BaseName(WdlName), "ACTIVE", <<>>, "None"),
          Seed(BaseName(WdlName), "ACTIVE", WrongTags, "ACTIVE")}

LegacySeeds ==
    {Seed(LegacyName(WdlName, DigestA), s, <<>>, "None") :
         s \in {"ACTIVE", "CREATING", "FAILED"}}

SubmitSeeds ==
    {Seed(SubmitName(WdlName, ZipSha256(DigestA)), s, <<>>, "None") :
         s \in {"ACTIVE", "CREATING", "DELETED"}}

\* the workflows that may be there when a command line is run: the ones of the
\* name it lists, in every status, and one of a name it does not list
SeedsFor(tool, legacy) ==
    IF tool = "submit"
    THEN SubmitSeeds \cup {Seed(BaseName(WdlName), "ACTIVE", OwnerTags, "ACTIVE")}
    ELSE IF legacy
    THEN LegacySeeds \cup {Seed(BaseName(WdlName), "ACTIVE", OwnerTags, "ACTIVE")}
    ELSE BaseSeeds \cup {Seed(LegacyName(WdlName, DigestA), "ACTIVE", <<>>, "None")}

SeedWorkflows(seeds) ==
    [k \in 1..Len(seeds) |-> Entry(seeds[k].name, seeds[k].status, seeds[k].tags)]

SeedVersions(seeds) ==
    {[workflowId |-> k, versionName |-> VersionName(DigestA), status |-> seeds[k].ver,
      definition |-> SeedDefinition] :
         k \in {j \in 1..Len(seeds) : seeds[j].ver # "None"}}

InitRemote(seedSet) ==
    \E seeds \in SeqsUpTo(seedSet, InitWorkflows) :
        /\ workflows = SeedWorkflows(seeds)
        /\ versions = SeedVersions(seeds)

ResolverIdle ==
    /\ listing = <<>>
    /\ sizes = <<>>
    /\ answer = Idle

\* the documents, run groups and caches named on the command lines
LongName == Rep("n", BaseNameLen + 1)
GroupName == <<"g">>
CacheName == <<"c">>
S3Uri == S3Scheme \o <<"b">>
HttpUri == <<"h", "t", "t", "p">> \o Tail(Tail(S3Scheme)) \o <<"b">>
GivenRunGroupId == MaxEntries + 2

\* --role-arn and --output-uri, what a run needs at least
PlainArgs == [NoArgs EXCEPT !.output_uri = Some(S3Uri), !.role_arn = Some("arn")]

CommandLine(tool, legacy, build, args) ==
    [tool |-> tool, legacy |-> legacy, build |-> build, args |-> args]

\* the command lines without run options: a run with versions, a build, a run
\* with --legacy-workflow-name, a submit
CommandLines ==
    {CommandLine("run", FALSE, FALSE, PlainArgs), CommandLine("run", FALSE, TRUE, NoArgs),
     CommandLine("run", TRUE, FALSE, PlainArgs),
     CommandLine("submit", FALSE, FALSE, PlainArgs)}

LongNameCommandLines ==
    {c \in CommandLines : ~c.build}

\* command lines with run options
AllOptionsArgs ==
    [PlainArgs EXCEPT !.name = Some("n"), !.priority = Some(0),
                      !.run_group = Some(GroupName), !.storage_capacity = Some(0),
                      !.storage_type = Some("static"), !.cache = Some(CacheName),
                      !.cache_behavior = Some("always"),
                      !.retention_mode = Some("remove")]

OptionCommandLines ==
    {CommandLine("run", FALSE, FALSE, AllOptionsArgs),
     CommandLine("run", FALSE, FALSE,
                 [PlainArgs EXCEPT !.priority = Some(1),
                                   !.run_group_id = Some(GivenRunGroupId),
                                   !.cache_id = Some(GivenCacheId),
                                   !.cache_behavior = Some("NO_CACHE")]),
     CommandLine("run", FALSE, FALSE, [PlainArgs EXCEPT !.cache_behavior = Some("failure")]),
     CommandLine("run", FALSE, FALSE,
                 [PlainArgs EXCEPT !.role_arn = NoneOpt, !.role = Some("r")]),
     CommandLine("run", FALSE, TRUE, [NoArgs EXCEPT !.cache_behavior = Some("no")]),
     CommandLine("run", TRUE, FALSE, [PlainArgs EXCEPT !.cache = Some(CacheName)])}

\* command lines that main or argparse rejects
RejectedCommandLines ==
    {CommandLine("run", FALSE, FALSE, a) :
        a \in {[PlainArgs EXCEPT !.output_uri = Some(HttpUri)],
               [PlainArgs EXCEPT !.output_uri = NoneOpt],
               [PlainArgs EXCEPT !.role_arn = NoneOpt],
               [PlainArgs EXCEPT !.role = Some("r")],
               [PlainArgs EXCEPT !.inputs_given = TRUE, !.inputs_ok = FALSE],
               [PlainArgs EXCEPT !.doc_ok = FALSE],
               [PlainArgs EXCEPT !.cache_behavior = Some("cache_always")],
               [PlainArgs EXCEPT !.cache_behavior = Some("bogus")],
               [PlainArgs EXCEPT !.storage_type = Some("Static")],
               [PlainArgs EXCEPT !.run_group = Some(GroupName),
                                 !.run_group_id = Some(GivenRunGroupId)],
               [PlainArgs EXCEPT !.cache = Some(CacheName),
                                 !.cache_id = Some(GivenCacheId)]}}
    \cup {CommandLine("run", FALSE, TRUE, a) :
        a \in {[NoArgs EXCEPT !.output_uri = Some(S3Uri)],
               [NoArgs EXCEPT !.inputs_given = TRUE],
               [NoArgs EXCEPT !.output_uri = Some(HttpUri)]}}
    \cup {CommandLine("submit", FALSE, FALSE, a) :
        a \in {[PlainArgs EXCEPT !.role_arn = NoneOpt],
               [PlainArgs EXCEPT !.output_uri = NoneOpt],
               [PlainArgs EXCEPT !.output_uri = Some(HttpUri)],
               [PlainArgs EXCEPT !.inputs_given = TRUE, !.inputs_ok = FALSE]}}

\* the run groups and caches the service holds when the command line names some
Catalogs ==
    {NoCatalog,
     [run_groups |-> <<Listed(GroupName, "ACTIVE")>>,
      caches |-> <<Listed(CacheName, "ACTIVE")>>],
     [run_groups |-> <<Listed(GroupName, "ACTIVE"), Listed(GroupName, "ACTIVE")>>,
      caches |-> <<Listed(CacheName, "ACTIVE"), Listed(CacheName, "DELETED")>>],
     [run_groups |-> <<Listed(OtherName, "ACTIVE"), Listed(GroupName, "ACTIVE")>>,
      caches |-> <<Listed(OtherName, "ACTIVE")>>]}

LongNameSeeds ==
    {Seed(BaseName(LongName), "ACTIVE", OwnerTags, "None"),
     Seed(LegacyName(LongName, DigestA), "ACTIVE", <<>>, "None"),
     Seed(SubmitName(LongName, ZipSha256(DigestA)), "CREATING", <<>>, "None")}

OptionSeeds ==
    {Seed(BaseName(WdlName), "ACTIVE", OwnerTags, "ACTIVE"),
     Seed(BaseName(WdlName), "ACTIVE", OwnerTags, "None")}

\* what one invocation is started with and against
Scenario(c, name, digest, seedSet, catalogs) ==
    [cmd |-> c, name |-> name, digest |-> digest, seeds |-> seedSet,
     catalogs |-> catalogs]

Scenarios ==
    {Scenario(c, WdlName, d, SeedsFor(c.tool, c.legacy), {NoCatalog}) :
        c \in CommandLines, d \in Digests}
    \cup {Scenario(c, LongName, DigestA, LongNameSeeds, {NoCatalog}) :
             c \in LongNameCommandLines}
    \cup {Scenario(c, WdlName, DigestA, OptionSeeds, Catalogs) : c \in OptionCommandLines}
    \cup {Scenario(c, WdlName, DigestA, {}, {NoCatalog}) : c \in RejectedCommandLines}

Invoke(c, name, digest, after) ==
    NewInvocation(c.tool, c.legacy, c.build, name, digest, c.args, after)

\* one invocation of either tool against any remote state
Init ==
    /\ ResolverIdle
    /\ runs = {}
    /\ \E sc \in Scenarios :
           /\ InitRemote(sc.seeds)
           /\ catalog \in sc.catalogs
           /\ inv = [i \in Invocations |->
                        IF i = "i1" THEN Invoke(sc.cmd, sc.name, sc.digest, "none")
                        ELSE Off]

Next ==
    \/ \E i \in Invocations : RunToolStep(i)
    \/ \E i \in Invocations : SubmitEnsure(i)
    \/ RemoteStep

Spec == Init /\ [][Next]_vars

\* two invocations of miniwdl-omics-run at once, same workflow and digest
RaceSeeds ==
    {Seed(BaseName(WdlName), "ACTIVE", OwnerTags, "None"),
     Seed(BaseName(WdlName), "CREATING", OwnerTags, "None"),
     Seed(BaseName(WdlName), "ACTIVE", OwnerTags, "ACTIVE"),
     Seed(BaseName(WdlName), "ACTIVE", <<>>, "None")}

InitRace ==
    /\ InitRemote(RaceSeeds)
    /\ ResolverIdle
    /\ runs = {}
    /\ catalog = NoCatalog
    /\ inv = [i \in Invocations |->
                 NewInvocation("run", FALSE, FALSE, WdlName, DigestA, PlainArgs, "none")]

NextRun ==
    \/ \E i \in Invocations : RunToolStep(i)
    \/ RemoteStep

SpecRace == InitRace /\ [][NextRun]_vars

\* miniwdl-omics-run run twice in sequence with the same command line and document
InitSeq ==
    /\ InitRemote(BaseSeeds \cup LegacySeeds)
    /\ ResolverIdle
    /\ runs = {}
    /\ catalog = NoCatalog
    /\ \E legacy \in BOOLEAN, d \in Digests :
           inv = [i \in Invocations |->
                     NewInvocation("run", legacy, FALSE, WdlName, d, PlainArgs,
                                   IF i = "i1" THEN "none" ELSE "i1")]

SpecSeq == InitSeq /\ [][NextRun]_vars

SpecResolve == InitResolve /\ [][NextResolve]_vars

\* a run with every combination of the eight run options, the values argparse
\* rejects included, against a workflow and a version that are ready
CacheBehaviorValues ==
    {"no", "failure", "always", "NO_CACHE", "CACHE_ON_FAILURE", "CACHE_ALWAYS",
     "cache_always", "Cache_Always", "bogus"}

OptionArgs ==
    {[PlainArgs EXCEPT !.name = n, !.priority = p, !.run_group_id = g,
                       !.storage_capacity = sc, !.storage_type = st, !.cache_id = c,
                       !.cache_behavior = cb, !.retention_mode = rm] :
        n \in {NoneOpt, Some("n")},
        p \in {NoneOpt, Some(0), Some(1)},
        g \in {NoneOpt, Some(GivenRunGroupId)},
        sc \in {NoneOpt, Some(0)},
        st \in {NoneOpt, Some("static"), Some("DYNAMIC"), Some("Static")},
        c \in {NoneOpt, Some(GivenCacheId)},
        cb \in {NoneOpt} \cup {Some(v) : v \in CacheBehaviorValues},
        rm \in {NoneOpt, Some("retain"), Some("REMOVE")}}

InitOptions ==
    /\ workflows = SeedWorkflows(<<Seed(BaseName(WdlName), "ACTIVE", OwnerTags, "ACTIVE")>>)
    /\ versions = SeedVersions(<<Seed(BaseName(WdlName), "ACTIVE", OwnerTags, "ACTIVE")>>)
    /\ ResolverIdle
    /\ runs = {}
    /\ catalog = NoCatalog
    /\ \E a \in OptionArgs :
           inv = [i \in Invocations |->
                     IF i = "i1"
                     THEN NewInvocation("run", FALSE, FALSE, WdlName, DigestA, a, "none")
                     ELSE Off]

NextOptions ==
    \E i \in Invocations :
        \/ Start(i)
        \/ RunGroup(i)
        \/ Select(i)
        \/ AwaitFetch(i)
        \/ GetVersion(i)
        \/ Ensured(i)
        \/ StartRun(i)
        \/ PrintRunInfo(i)

SpecOptions == InitOptions /\ [][NextOptions]_vars

\* one invocation of either tool against workflows and versions that are being
\* created, the processes and the service being scheduled fairly: a process
\* that can take a step takes one (its sleep returns, its calls are answered),
\* and the service ends the creation of what it is creating
LiveSeeds ==
    {Seed(BaseName(WdlName), "CREATING", OwnerTags, "None"),
     Seed(BaseName(WdlName), "ACTIVE", OwnerTags, "CREATING"),
     Seed(BaseName(WdlName), "ACTIVE", OwnerTags, "None"),
     Seed(LegacyName(WdlName, DigestA), "CREATING", <<>>, "None"),
     Seed(SubmitName(WdlName, ZipSha256(DigestA)), "CREATING", <<>>, "None")}

InitLive ==
    /\ \E seeds \in SeqsUpTo(LiveSeeds, 1) :
           /\ workflows = SeedWorkflows(seeds)
           /\ versions = SeedVersions(seeds)
    /\ ResolverIdle
    /\ runs = {}
    /\ catalog = NoCatalog
    /\ \E c \in CommandLines :
           inv = [i \in Invocations |->
                     IF i = "i1" THEN Invoke(c, WdlName, DigestA, "none") ELSE Off]

ProcessStep(i) == RunToolStep(i) \/ SubmitEnsure(i)

SpecLive ==
    /\ InitLive
    /\ [][Next]_vars
    /\ \A i \in Invocations : WF_vars(ProcessStep(i))
    /\ WF_vars(RemoteStep)

\* two runs with --legacy-workflow-name at once, on documents of the same name
\* whose digests differ in the first 16 characters, or only after them
DigestA2 == Rep("a", 16) \o <<"2">>

LegacyRaceSeeds ==
    {Seed(LegacyName(WdlName, DigestA), s, <<>>, "None") : s \in {"ACTIVE", "CREATING"}}
    \cup {Seed(LegacyName(WdlName, DigestB), "ACTIVE", <<>>, "None")}

LegacyRaceDocuments ==
    {<<WdlName, DigestB>>, <<WdlName, DigestA2>>, <<LongName, DigestB>>}

InitLegacy ==
    /\ InitRemote(LegacyRaceSeeds)
    /\ ResolverIdle
    /\ runs = {}
    /\ catalog = NoCatalog
    /\ \E doc \in LegacyRaceDocuments :
           inv = [i \in Invocations |->
                     NewInvocation("run", TRUE, FALSE, doc[1],
                                   IF i = "i1" THEN DigestA ELSE doc[2],
                                   PlainArgs, "none")]

NextLegacy ==
    \/ \E i \in Invocations :
           \/ Start(i)
           \/ RunGroup(i)
           \/ Select(i)
           \/ CreateWorkflow(i)
           \/ AwaitFetch(i)
           \/ AwaitSleep(i)
           \/ Ensured(i)
           \/ StartRun(i)
           \/ PrintRunInfo(i)
    \/ \E w \in 1..Len(workflows), s \in {"ACTIVE", "FAILED"} : WorkflowSettles(w, s)

SpecLegacy == InitLegacy /\ [][NextLegacy]_vars

---------------------------------------------------------------------------
\* Properties of the name resolvers (checked under SpecResolve)

MinOf(S) == CHOOSE m \in S : \A n \in S : m <= n
MaxOf(S) == CHOOSE m \in S : \A n \in S : m >= n

HasOwnerTag(entry) ==
    TAG_KEY \in DOMAIN entry.tags /\ entry.tags[TAG_KEY] = TAG_VAL

\* the positions of the listing's entries that qualify as a workflow named WdlName
QualifyingWorkflows(tagged) ==
    {k \in 1..Len(listing) :
        /\ listing[k].name = WdlName
        /\ listing[k].status # "DELETED"
        /\ listing[k].status # "FAILED"
        /\ tagged => HasOwnerTag(listing[k])}

\* the positions of the entries named WdlName, whatever their status
NamedEntries == {k \in 1..Len(listing) : listing[k].name = WdlName}

\* C7: when two or more listed workflows qualify (not DELETED/FAILED, and carrying
\* the tag when one is required), select_existing_workflow_id returns the first of
\* them in listing order and warns exactly once; with fewer than two it never warns.
C7_FirstQualifyingOneWarning ==
    answer.op \in {"workflow", "tagged_workflow"} =>
        LET Q == QualifyingWorkflows(answer.op = "tagged_workflow")
        IN  /\ Cardinality(Q) >= 2 => answer.id = MinOf(Q) /\ answer.warnings = 1
            /\ Cardinality(Q) < 2 => answer.warnings = 0

C7_Witness ==
    /\ answer.op = "tagged_workflow"
    /\ QualifyingWorkflows(TRUE) = {2, 3}
    /\ sizes = <<0, 2>>
    /\ answer.id = 2
    /\ answer.warnings = 1

---------------------------------------------------------------------------
\* Properties of the invocations

\* ensure has returned to main
EnsureReturned(r) == r.pc \in {"ensured", "start_run", "print", "done"}

Versioned(r) == r.tool = "run" /\ ~r.legacy /\ r.pc # "off"

\* C1: a second run, after a first one completed and with the same name and digest,
\* returns the same workflow id and version name as the first and issues neither a
\* create_workflow nor a create_workflow_version call (checked under SpecSeq).
C1_EnsureIdempotent ==
    LET first  == inv["i1"]
        second == inv["i2"]
    IN  /\ second.creates_wf = 0
        /\ second.creates_ver = 0
        /\ EnsureReturned(second) =>
               /\ second.workflow_id = first.workflow_id
               /\ second.version_name = first.version_name

C1_Witness ==
    /\ inv["i1"].creates_wf = 1
    /\ inv["i1"].creates_ver = 1
    /\ Len(workflows) = 3
    /\ inv["i2"].pc = "done"
    /\ inv["i2"].workflow_id = 3
    /\ inv["i2"].version_name = VersionName(inv["i1"].digest)

NoFailedEntity ==
    /\ \A w \in 1..Len(workflows) : workflows[w].status # "FAILED"
    /\ \A v \in versions : v.status # "FAILED"

\* C2: two concurrent invocations with the same name and digest both finish ensure,
\* each with a workflow and a version named by the digest prefix that is not
\* CREATING, and neither aborts because of the other, as long as no entity enters
\* FAILED (checked under SpecRace; the service refuses a duplicate version name).
C2_RaceConverges ==
    NoFailedEntity =>
        \A i \in Invocations :
            /\ inv[i].error # "ConflictException"
            /\ EnsureReturned(inv[i]) =>
                   /\ inv[i].version_name = VersionName(inv[i].digest)
                   /\ HasVersion(inv[i].workflow_id, inv[i].version_name)
                   /\ workflows[inv[i].workflow_id].status # "CREATING"
                   /\ TheVersion(inv[i].workflow_id, inv[i].version_name).status
                          # "CREATING"

\* C3: the workflow id and version name ensure returns never designate a workflow
\* or a version that this invocation fetched with status DELETED or FAILED.
C3_NoDeletedOrFailedReuse ==
    \A i \in Invocations :
        EnsureReturned(inv[i]) =>
            /\ inv[i].fetched_wf \cap {"DELETED", "FAILED"} = {}
            /\ inv[i].fetched_ver \cap {"DELETED", "FAILED"} = {}

\* C4: a get_workflow_version error with code NotFoundException or
\* ResourceNotFoundException, or with HTTP status 404, does not propagate and is
\* followed by exactly one create_workflow_version call; any other error propagates
\* with no create_workflow_version and no start_run call.
C4_NotFoundDiscrimination ==
    \A i \in Invocations :
        LET r == inv[i]
        IN  /\ r.lookup.kind = "error" =>
                   IF \/ r.lookup.code \in {"NotFoundException", "ResourceNotFoundException"}
                      \/ r.lookup.http = 404
                   THEN r.pc = "create_version" /\ r.exit = "none" /\ r.creates_ver = 0
                   ELSE /\ r.pc = "exited" /\ r.exit = "raised"
                        /\ r.error = r.lookup.code
                        /\ r.creates_ver = 0 /\ r.starts = 0
            /\ r.creates_ver <= 1
            /\ r.version_name # <<>> /\ r.existing_version = "None"
                 /\ r.lookup.kind = "none" => r.creates_ver = 1

C4_Witness ==
    /\ inv["i1"].lookup = ErrorResponse("AccessDeniedException", 404)
    /\ inv["i1"].pc = "create_version"
    /\ inv["i1"].creates_wf = 1

\* C5 as stated: after k creating statuses and one that is neither creating nor
\* failed, await_omics_entity has fetched k+1 times, slept k times, and returns the
\* details of the last fetch to its caller.
C5_Original_ReturnsLastDetails ==
    \A i \in Invocations :
        LET r == inv[i]
        IN  r.tool = "run" /\ r.await_ret # "unset" =>
                /\ r.fetches = r.creating + 1
                /\ r.sleeps = r.creating
                /\ r.await_ret = r.last_details

\* C5 amended: after k creating statuses and one that is neither creating nor
\* failed, await_omics_entity has fetched k+1 times and slept k times, and returns
\* None to its caller (the details of the last fetch are only logged).
C5_PollCountsReturnsNone ==
    \A i \in Invocations :
        LET r == inv[i]
        IN  r.tool = "run" /\ r.await_ret # "unset" =>
                /\ r.fetches = r.creating + 1
                /\ r.sleeps = r.creating
                /\ r.last_details \notin {"CREATING", "FAILED", "None"}
                /\ r.await_ret = "None"

C5_Witness ==
    /\ inv["i1"].tool = "run"
    /\ inv["i1"].await_ret = "None"
    /\ inv["i1"].creating = 2
    /\ inv["i1"].fetches = 3
    /\ inv["i1"].sleeps = 2
    /\ inv["i1"].last_details = "ACTIVE"

\* C6: once a polling loop of either tool fetches a failed status, the invocation
\* ends with exit code 2 at that fetch: no further fetch or sleep (the sleeps equal
\* the creating statuses seen before), no create_workflow_version or start_run
\* afterwards, and no result printed.
C6_FailedStatusExitsTwo ==
    \A i \in Invocations :
        LET r == inv[i]
        IN  r.last_details = "FAILED" =>
                   /\ r.exit = "2"
                   /\ r.pc = "exited"
                   /\ r.fetches = r.creating + 1
                   /\ r.sleeps = r.creating
                   /\ r.starts = 0
                   /\ r.printed = "none"
                   /\ r.creates_ver = IF r.awaiting = "version"
                                         /\ r.existing_version = "None" THEN 1 ELSE 0

C6_Witness ==
    /\ inv["i1"].exit = "2"
    /\ inv["i1"].awaiting = "version"
    /\ inv["i1"].creating = 1
    /\ inv["i1"].fetches = 2
    /\ inv["i1"].sleeps = 1

\* the workflows a versioned invocation may reuse: named by the base name, not
\* DELETED or FAILED, tagged miniwdl-omics-run = yes
ReusableBase(r) ==
    {w \in 1..Len(workflows) :
        /\ workflows[w].name = BaseName(r.name)
        /\ workflows[w].status \notin {"DELETED", "FAILED"}
        /\ HasOwnerTag(workflows[w])}

\* C10: in versioned mode the workflow id that the resolution returns, and that goes
\* to create_workflow_version and start_run, is that of a workflow with the base
\* name and the tag miniwdl-omics-run = yes; and when exactly one such workflow is
\* not DELETED or FAILED at the resolution, its id is the one returned.
C10_OwnerTagFilter ==
    /\ [](\A i \in Invocations :
             Versioned(inv[i]) =>
                 /\ inv[i].workflow_id # None =>
                        /\ workflows[inv[i].workflow_id].name = BaseName(inv[i].name)
                        /\ HasOwnerTag(workflows[inv[i].workflow_id])
                 /\ inv[i].starts > 0 =>
                        inv[i].start_kwargs.workflowId = inv[i].workflow_id
                 /\ \A v \in versions :
                        v.versionName = VersionName(DigestB) =>
                            HasOwnerTag(workflows[v.workflowId]))
    /\ [][\A i \in Invocations :
             Versioned(inv[i]) /\ inv[i].pc = "select" /\ inv'[i].pc # "select"
                 /\ Cardinality(ReusableBase(inv[i])) = 1
                 => inv'[i].workflow_id \in ReusableBase(inv[i])]_vars

C10_Witness ==
    /\ Len(workflows) = 2
    /\ workflows[1].name = BaseName(WdlName)
    /\ workflows[1].status = "ACTIVE"
    /\ ~HasOwnerTag(workflows[1])
    /\ Versioned(inv["i1"])
    /\ inv["i1"].creates_wf = 0
    /\ inv["i1"].creates_ver = 1
    /\ inv["i1"].starts = 1
    /\ inv["i1"].start_kwargs.workflowId = 2

---------------------------------------------------------------------------
\* Exit statuses (checked under Spec)

\* C11: an invocation ends with exit status 2 if and only if the last status its
\* polling loop fetched was a failed one; a command line that is rejected (output
\* URI that is not an s3:// one, missing or conflicting role, ...) ends with
\* another non-zero status.
C11_ExitCodeSeparation ==
    \A i \in Invocations :
        inv[i].exit = "2" <=> (inv[i].fetches > 0 /\ inv[i].last_details \in failed_statuses)

---------------------------------------------------------------------------
\* The run options (checked under SpecOptions)

\* the start_run keys of the options that are set (not None) in args
OptionsSet(args) ==
    {k \in {"name", "priority", "runGroupId", "storageCapacity", "storageType",
            "cacheId", "cacheBehavior", "retentionMode"} :
        CASE k = "name" -> args.name # NoneOpt
          [] k = "priority" -> args.priority # NoneOpt
          [] k = "runGroupId" -> args.run_group_id # NoneOpt
          [] k = "storageCapacity" -> args.storage_capacity # NoneOpt
          [] k = "storageType" -> args.storage_type # NoneOpt
          [] k = "cacheId" -> args.cache_id # NoneOpt
          [] k = "cacheBehavior" -> args.cache_behavior # NoneOpt
          [] k = "retentionMode" -> args.retention_mode # NoneOpt}

\* C12: for every combination of the eight run options, the options sent with
\* start_run are exactly the ones that are set, 0 counting as set for priority
\* and storage capacity, and an unset option is sent with no value at all.
C12_SparseOptions ==
    \A i \in Invocations :
        inv[i].starts > 0 =>
            LET args == inv[i].args
                sent == inv[i].start_kwargs.options
            IN  /\ DOMAIN sent = OptionsSet(args)
                /\ DOMAIN start_run_options(args) = OptionsSet(args)
                /\ args.priority # NoneOpt => sent["priority"] = args.priority[1]
                /\ args.storage_capacity # NoneOpt =>
                       sent["storageCapacity"] = args.storage_capacity[1]
                /\ args.name # NoneOpt => sent["name"] = args.name[1]
                /\ args.run_group_id # NoneOpt => sent["runGroupId"] = args.run_group_id[1]
                /\ args.cache_id # NoneOpt => sent["cacheId"] = args.cache_id[1]

\* a run was started with priority 0 and storage capacity 0 and nothing else set
C12_Witness ==
    /\ inv["i1"].starts = 1
    /\ inv["i1"].args.priority = Some(0)
    /\ inv["i1"].args.storage_capacity = Some(0)
    /\ OptionsSet(inv["i1"].args) = {"priority", "storageCapacity"}
    /\ DOMAIN inv["i1"].start_kwargs.options = {"priority", "storageCapacity"}
    /\ inv["i1"].start_kwargs.options["priority"] = 0
    /\ \E run \in runs : run.kwargs = inv["i1"].start_kwargs

CanonicalCacheBehaviors == {"NO_CACHE", "CACHE_ON_FAILURE", "CACHE_ALWAYS"}
CacheBehaviorAliases == {"no", "failure", "always"}

\* what a --cache-behavior value stands for
NormalCacheBehavior(v) ==
    CASE v = "no" -> "NO_CACHE"
      [] v = "failure" -> "CACHE_ON_FAILURE"
      [] v = "always" -> "CACHE_ALWAYS"
      [] OTHER -> v

\* the command line would be accepted if --cache-behavior were left out
AcceptedWithoutCacheBehavior(args) ==
    run_parse_args([args EXCEPT !.cache_behavior = NoneOpt])

\* what holds of --cache-behavior when the values in accepted are the ones the
\* parser lets through: they are sent normalised, normalising is idempotent, and
\* every other value ends the process before any remote call
CacheBehaviorRule(accepted) ==
    /\ \A v \in CanonicalCacheBehaviors \cup CacheBehaviorAliases :
           /\ NormalCacheBehavior(v) \in CanonicalCacheBehaviors
           /\ NormalCacheBehavior(NormalCacheBehavior(v)) = NormalCacheBehavior(v)
    /\ \A i \in Invocations :
           LET r  == inv[i]
               cb == r.args.cache_behavior
           IN  (cb # NoneOpt /\ r.pc \notin {"off", "init"}) =>
                   /\ (cb[1] \in accepted /\ AcceptedWithoutCacheBehavior(r.args)) =>
                          r.exit # ArgparseExit
                   /\ cb[1] \notin accepted =>
                          (r.exit = ArgparseExit /\ r.calls = <<>> /\ r.starts = 0)
                   /\ r.starts > 0 =>
                          /\ r.start_kwargs.options["cacheBehavior"]
                                 = NormalCacheBehavior(cb[1])
                          /\ r.start_kwargs.options["cacheBehavior"]
                                 \in CanonicalCacheBehaviors

\* C13 as stated: the aliases and the canonical values are accepted, the
\* canonical values in any case (lower or mixed), and normalised; every other
\* value is rejected before any remote call.
C13_Original_CaseInsensitive ==
    CacheBehaviorRule({v \in CacheBehaviorValues :
                          v \in CacheBehaviorAliases
                              \/ upper(v) \in CanonicalCacheBehaviors})

\* C13: no, failure, always are sent as NO_CACHE, CACHE_ON_FAILURE, CACHE_ALWAYS;
\* a canonical value is accepted in exactly its upper-case spelling and sent as
\* it is; every other value, a canonical value in lower or mixed case included,
\* ends the process before any remote call, so the cacheBehavior sent with
\* start_run is always one of the three canonical values.
C13_CacheBehaviorNormalised ==
    CacheBehaviorRule(CacheBehaviorAliases \cup CanonicalCacheBehaviors)

\* a run was started with the alias always, sent as CACHE_ALWAYS
C13_Witness ==
    /\ inv["i1"].starts = 1
    /\ inv["i1"].args.cache_behavior = Some("always")
    /\ inv["i1"].start_kwargs.options["cacheBehavior"] = "CACHE_ALWAYS"
    /\ inv["i1"].pc = "done"

---------------------------------------------------------------------------
\* The order of the calls of one invocation (checked under Spec)

Has(calls, call) == \E k \in 1..Len(calls) : calls[k] = call
FirstIndex(calls, call) == MinOf({k \in 1..Len(calls) : calls[k] = call})
LastIndex(calls, call) == MaxOf({k \in 1..Len(calls) : calls[k] = call})

\* every polling loop the invocation began has returned, the last one on a
\* status that is neither creating nor failed
PollingEnded(r) ==
    /\ r.pc \notin {"await_fetch", "await_sleep"}
    /\ Has(r.calls, "awaited_workflow")
    /\ FirstIndex(r.calls, "awaited_workflow") > FirstIndex(r.calls, "list_workflows")
    /\ Has(r.calls, "create_workflow") =>
           FirstIndex(r.calls, "awaited_workflow") > FirstIndex(r.calls, "create_workflow")
    /\ Has(r.calls, "create_workflow_version") =>
           /\ Has(r.calls, "awaited_version")
           /\ LastIndex(r.calls, "awaited_version")
                  > LastIndex(r.calls, "create_workflow_version")
    /\ r.fetches > 0
    /\ r.last_details \notin creating_statuses \cup failed_statuses

\* C14: either tool prints its JSON result only when ensure has returned, every
\* polling loop it ran has ended on a status that is neither creating nor failed
\* and, for a run, start_run has returned as its last call; an invocation that
\* ends with a non-zero exit status or a propagated error has printed nothing.
C14_SuccessOutputLast ==
    \A i \in Invocations :
        LET r == inv[i]
        IN  /\ r.printed = "run" =>
                   /\ r.pc = "done" /\ r.exit = "0" /\ r.error = "none"
                   /\ PollingEnded(r)
                   /\ r.starts = 1
                   /\ r.calls[Len(r.calls)] = "start_run"
                   /\ \E run \in runs : run.by = i /\ run.kwargs = r.start_kwargs
            /\ r.printed = "build" =>
                   /\ r.pc = "done" /\ r.exit = "0" /\ r.error = "none"
                   /\ r.build
                   /\ PollingEnded(r)
                   /\ r.starts = 0
            /\ (r.exit \notin {"none", "0"} \/ r.error # "none") => r.printed = "none"
            /\ r.pc = "done" => r.printed # "none"

\* a run created the workflow and the version, slept in a polling loop, started
\* the run and printed its result
C14_Witness ==
    /\ inv["i1"].printed = "run"
    /\ inv["i1"].tool = "run"
    /\ inv["i1"].creates_wf = 1
    /\ inv["i1"].creates_ver = 1
    /\ inv["i1"].sleeps > 0
    /\ inv["i1"].starts = 1

IsPrefix(s, q) == Len(s) <= Len(q) /\ SubSeq(q, 1, Len(s)) = s

\* the calls of an invocation that create, wait for or start something
IsStepCall(call) ==
    call \in {"create_workflow", "awaited_workflow", "create_workflow_version",
              "awaited_version", "start_run"}

EndToEndCalls ==
    <<"create_workflow", "awaited_workflow", "create_workflow_version",
      "awaited_version", "start_run">>

\* the tagged workflows of the given name that are not DELETED or FAILED
LiveTagged(name) ==
    {w \in 1..Len(workflows) :
        /\ workflows[w].name = name
        /\ workflows[w].status \notin {"DELETED", "FAILED"}
        /\ HasOwnerTag(workflows[w])}

\* the invocation, in versioned mode, leaves the resolution having found nothing
FoundNothing(r, r2, name) ==
    /\ Versioned(r) /\ r.pc = "select" /\ r2.pc # "select"
    /\ LiveTagged(name) = {}

\* from a namespace without the workflow: the steps made are, in this order, one
\* create_workflow, the polling of that workflow, one create_workflow_version on
\* it named by the first 16 characters of the digest, the polling of the version,
\* one start_run with that workflow id and version name
EndToEndSteps(r) ==
    (Versioned(r) /\ r.creates_wf = 1) =>
        /\ IsPrefix(SelectSeq(r.calls, IsStepCall), EndToEndCalls)
        /\ r.creates_ver <= 1 /\ r.starts <= 1
        /\ r.pc = "done" =>
               SelectSeq(r.calls, IsStepCall)
                   = IF r.build THEN SubSeq(EndToEndCalls, 1, 4) ELSE EndToEndCalls
        /\ r.creates_ver = 1 =>
               /\ r.version_name = Take(r.digest, 16)
               /\ r.exit # "raised" =>
                      \E v \in versions : /\ v.workflowId = r.workflow_id
                                           /\ v.versionName = Take(r.digest, 16)
        /\ r.starts = 1 =>
               /\ r.start_kwargs.workflowId = r.workflow_id
               /\ r.start_kwargs.workflowVersionName = Take(r.digest, 16)

---------------------------------------------------------------------------
\* Nothing that exists is changed (checked under Spec)

\* the version is still there, with its name and definition, and with its status
\* unless the service has settled it meanwhile
VersionKept(v, vers) ==
    \E v2 \in vers :
        /\ v2.workflowId = v.workflowId
        /\ v2.versionName = v.versionName
        /\ v2.definition = v.definition
        /\ v2.status = v.status \/ v.status = "CREATING"

\* C16: in versioned mode, when a live tagged workflow with the base name exists,
\* the invocation creates no workflow and uses one of the live tagged ones; when
\* that workflow has no version named by the digest prefix, ensure returns having
\* issued exactly one create_workflow_version, on that workflow id; and every
\* version that existed before keeps its name, status and definition.
C16_NewVersionOnly ==
    /\ [](\A i \in Invocations :
             LET r == inv[i]
             IN  (Versioned(r) /\ r.creates_wf = 0) =>
                     /\ r.creates_ver <= 1
                     /\ (EnsureReturned(r) /\ r.existing_version = "None") =>
                            r.creates_ver = 1
                     /\ (r.creates_ver = 1 /\ r.exit # "raised") =>
                            \E v \in versions :
                                /\ v.workflowId = r.workflow_id
                                /\ v.versionName = Take(r.digest, 16)
                                /\ v.definition = r.digest)
    /\ [][\A i \in Invocations :
             LET r == inv[i]
                 live == LiveTagged(Take(r.name, 128))
             IN  /\ (Versioned(r) /\ r.pc = "select" /\ inv'[i].pc # "select"
                         /\ live # {}) =>
                        /\ inv'[i].workflow_id \in live
                        /\ inv'[i].pc # "create_workflow"
                        /\ workflows' = workflows
                 /\ (Versioned(r) /\ r.pc = "create_version"
                         /\ inv'[i].pc # "create_version") =>
                        /\ inv'[i].creates_ver = r.creates_ver + 1
                        /\ \A v \in versions : v \in versions'
                        /\ \A v \in versions' \ versions :
                               v.workflowId = r.workflow_id]_vars
    /\ [][\A v \in versions : VersionKept(v, versions')]_vars

\* a run of a document with a new digest, against a tagged workflow that has a
\* version of another digest: the old version is kept, a new one was created
C16_Witness ==
    /\ Versioned(inv["i1"])
    /\ inv["i1"].digest = DigestB
    /\ inv["i1"].pc = "done"
    /\ inv["i1"].creates_wf = 0
    /\ inv["i1"].creates_ver = 1
    /\ Len(workflows) = 1
    /\ \E v \in versions : v.workflowId = 1 /\ v.versionName = Take(DigestA, 16)
    /\ \E v \in versions : v.workflowId = 1 /\ v.versionName = Take(DigestB, 16)
    /\ Cardinality(versions) = 2

\* the steps of the invocations, as opposed to those of the service
InvocationStep == inv' # inv

\* C17: no step of an invocation changes or removes a workflow, a version, a run,
\* a run group or a run cache that exists; a step adds at most one workflow (a
\* create_workflow call), one version (create_workflow_version) or one run
\* (start_run), and a step that makes none of these calls leaves the remote
\* state as it is.
C17_ObserveAndCreateOnly ==
    [][InvocationStep =>
          /\ IsPrefix(workflows, workflows')
          /\ versions \subseteq versions'
          /\ runs \subseteq runs'
          /\ catalog' = catalog
          /\ \A i \in Invocations :
                 inv'[i] # inv[i] =>
                     /\ Len(workflows') - Len(workflows)
                            = inv'[i].creates_wf - inv[i].creates_wf
                     /\ Cardinality(versions') - Cardinality(versions)
                            <= inv'[i].creates_ver - inv[i].creates_ver
                     /\ Cardinality(runs') - Cardinality(runs)
                            <= inv'[i].starts - inv[i].starts
                     /\ inv'[i].creates_wf - inv[i].creates_wf \in {0, 1}
                     /\ inv'[i].creates_ver - inv[i].creates_ver \in {0, 1}
                     /\ inv'[i].starts - inv[i].starts \in {0, 1}]_vars

\* the submit tool created a workflow next to a DELETED one of the same name,
\* which is still there as it was, and started a run
C17_Witness ==
    /\ inv["i1"].tool = "submit"
    /\ inv["i1"].creates_wf = 1
    /\ inv["i1"].starts = 1
    /\ runs # {}
    /\ Len(workflows) = 2
    /\ workflows[1].status = "DELETED"
    /\ workflows[1].name = workflows[2].name

---------------------------------------------------------------------------
\* Packaging (checked under Spec)

\* C18: in versioned mode the source is packaged zero times when the workflow
\* and the version are both found, and exactly once when either is created, the
\* creation of both included; with --legacy-workflow-name it is packaged once
\* for each workflow created and not otherwise.
C18_LazySinglePackaging ==
    \A i \in Invocations :
        LET r == inv[i]
        IN  /\ Versioned(r) =>
                   /\ r.zips = IF r.creates_wf + r.creates_ver > 0 THEN 1 ELSE 0
                   /\ (EnsureReturned(r) /\ r.zips = 0) =>
                          /\ r.existing_version # "None"
                          /\ HasVersion(r.workflow_id, Take(r.digest, 16))
                   /\ (EnsureReturned(r) /\ r.existing_version = "None") => r.zips = 1
            /\ (r.tool = "run" /\ r.legacy /\ r.pc # "off") =>
                   /\ r.zips = r.creates_wf
                   /\ r.creates_wf <= 1

\* a run created both the workflow and the version and packaged the source once
C18_Witness ==
    /\ Versioned(inv["i1"])
    /\ inv["i1"].pc = "done"
    /\ inv["i1"].creates_wf = 1
    /\ inv["i1"].creates_ver = 1
    /\ inv["i1"].zips = 1

---------------------------------------------------------------------------
\* Runs with --legacy-workflow-name (checked under SpecLegacy)

LegacyRun(r) == r.tool = "run" /\ r.legacy /\ r.pc # "off"

\* C19: with --legacy-workflow-name the workflow used is named
\* name[:111] + "." + digest[:16], at most 128 characters; no get_workflow_version
\* and no create_workflow_version call is made; start_run carries no
\* workflowVersionName; and two invocations whose digests differ within the first
\* 16 characters never hold the same workflow id.
C19_LegacyKeepsDigestsApart ==
    /\ \A i \in Invocations :
           LET r == inv[i]
           IN  LegacyRun(r) =>
                   /\ r.workflow_id # None =>
                          /\ workflows[r.workflow_id].name
                                 = Take(r.name, 111) \o <<".">> \o Take(r.digest, 16)
                          /\ Len(workflows[r.workflow_id].name) <= 128
                   /\ ~Has(r.calls, "get_workflow_version")
                   /\ ~Has(r.calls, "create_workflow_version")
                   /\ r.creates_ver = 0
                   /\ r.version_name = <<>>
                   /\ r.starts > 0 =>
                          /\ r.start_kwargs.workflowVersionName = <<>>
                          /\ r.start_kwargs.workflowId = r.workflow_id
    /\ versions = {}
    /\ \A i, j \in Invocations :
           (/\ LegacyRun(inv[i]) /\ LegacyRun(inv[j])
            /\ inv[i].workflow_id # None /\ inv[j].workflow_id # None
            /\ Take(inv[i].digest, 16) # Take(inv[j].digest, 16))
               => inv[i].workflow_id # inv[j].workflow_id

\* two legacy runs of a document with a name longer than 111 characters and
\* two digests are done, each with a workflow of its own
C19_Witness ==
    /\ LegacyRun(inv["i1"]) /\ LegacyRun(inv["i2"])
    /\ inv["i1"].pc = "done" /\ inv["i2"].pc = "done"
    /\ Len(inv["i1"].name) > 111
    /\ inv["i1"].digest = DigestA /\ inv["i2"].digest = DigestB
    /\ inv["i1"].creates_wf = 1 /\ inv["i2"].creates_wf = 1
    /\ inv["i1"].workflow_id # inv["i2"].workflow_id
    /\ Len(workflows[inv["i1"].workflow_id].name) = 128

---------------------------------------------------------------------------
\* The request identifier of start_run (checked under Spec)

\* C20: every start_run call of either tool carries a request identifier, an
\* invocation makes at most one start_run call, and two invocations never send
\* the same identifier.
C20_RequestIdOnEveryStart ==
    /\ \A i \in Invocations :
           /\ inv[i].starts <= 1
           /\ inv[i].starts > 0 => inv[i].start_kwargs.requestId # "none"
    /\ \A i, j \in Invocations :
           (i # j /\ inv[i].starts > 0 /\ inv[j].starts > 0) =>
               inv[i].start_kwargs.requestId # inv[j].start_kwargs.requestId

---------------------------------------------------------------------------
\* Termination of the polling (checked under SpecLive)

Polling(r) == r.pc \in {"await_fetch", "await_sleep"}

Terminated(r) == r.pc \in {"off", "done", "exited"}

\* C21: when the service ends every creation, every invocation terminates, and
\* a polling loop is only left with exit status 2 or by returning; as long
\* as the awaited entity is CREATING the invocation stays in its polling loop,
\* whatever the number of fetches made: a fetch of CREATING is followed by the
\* sleep, the sleep by the next fetch, one sleep between two fetches, and
\* nothing is started or printed from inside the loop.
C21_PollingTerminates ==
    /\ <>(\A i \in Invocations : Terminated(inv[i]))
    /\ [](\A i \in Invocations :
             Polling(inv[i]) =>
                 /\ inv[i].printed = "none"
                 /\ inv[i].starts = 0
                 /\ inv[i].fetches - inv[i].sleeps
                        = IF inv[i].pc = "await_sleep" THEN 1 ELSE 0)
    /\ [][\A i \in Invocations :
             LET r == inv[i]
             IN  /\ (r.pc = "await_fetch" /\ inv'[i] # r
                         /\ FetchedStatus(r) = "CREATING") =>
                        /\ inv'[i].pc = "await_sleep"
                        /\ inv'[i].fetches = r.fetches + 1
                        /\ inv'[i].sleeps = r.sleeps
                 /\ (r.pc = "await_sleep" /\ inv'[i] # r) =>
                        /\ inv'[i].pc = "await_fetch"
                        /\ inv'[i].sleeps = r.sleeps + 1
                        /\ inv'[i].fetches = r.fetches
                 /\ (Polling(r) /\ ~Polling(inv'[i])) =>
                        \/ inv'[i].exit = "2" /\ inv'[i].pc = "exited"
                        \/ inv'[i].exit = "none" /\ inv'[i].awaits = r.awaits + 1]_vars

\* an invocation that slept as often as the model lets it while the workflow
\* and then the version were being created is done
C21_Witness ==
    /\ inv["i1"].pc = "done"
    /\ inv["i1"].awaits = 2
    /\ inv["i1"].sleeps = MaxPolls
    /\ inv["i1"].creates_ver = 1

---------------------------------------------------------------------------
\* Ready before use (checked under Spec)

\* the calls made on the versions of the base workflow
VersionCalls == {"get_workflow_version", "create_workflow_version"}

\* the last status the invocation fetched is one of a finished creation
Ready(last) == last \notin {"None", "CREATING"}

\* C22: once ensure has returned, the last status the invocation fetched for
\* its workflow, and with versions for its version, is not CREATING, the
\* entity being created by it or found; a version found CREATING was polled;
\* the polling of the base workflow has returned before the first
\* get_workflow_version or create_workflow_version call; and start_run, of
\* either tool, is reached and called only with these statuses.
C22_ReadyBeforeUse ==
    \A i \in Invocations :
        LET r == inv[i]
        IN  /\ (r.tool = "run" /\ EnsureReturned(r)) =>
                   /\ Ready(r.last_wf)
                   /\ r.workflow_id # None
                   /\ Versioned(r) =>
                          /\ Ready(r.last_ver)
                          /\ r.existing_version \in {"None", "CREATING"} =>
                                 r.awaits = 2 /\ Has(r.calls, "awaited_version")
            /\ \A k \in 1..Len(r.calls) :
                   r.calls[k] \in VersionCalls =>
                       /\ Has(r.calls, "awaited_workflow")
                       /\ FirstIndex(r.calls, "awaited_workflow") < k
                       /\ Ready(r.last_wf)
            /\ (r.pc = "start_run" \/ r.starts > 0) =>
                   /\ Ready(r.last_wf)
                   /\ Versioned(r) => Ready(r.last_ver)

\* a run started on a version that was found CREATING and polled until ACTIVE
C22_Witness ==
    /\ inv["i1"].starts = 1
    /\ inv["i1"].creates_ver = 0
    /\ inv["i1"].creates_wf = 0
    /\ inv["i1"].existing_version = "CREATING"
    /\ inv["i1"].last_ver = "ACTIVE"
    /\ inv["i1"].sleeps > 0

---------------------------------------------------------------------------
\* Validation and side effects (checked under Spec)

\* C23: an invocation of miniwdl-omics-run that ended with exit status 1 has
\* issued no create_workflow and no create_workflow_version call.
C23_ValidationBeforeCreate ==
    \A i \in Invocations :
        (inv[i].tool = "run" /\ inv[i].pc = "exited" /\ inv[i].exit = "1") =>
            /\ inv[i].creates_wf = 0
            /\ inv[i].creates_ver = 0
            /\ ~Has(inv[i].calls, "create_workflow")
            /\ ~Has(inv[i].calls, "create_workflow_version")

---------------------------------------------------------------------------
\* The status of a run cache chosen by name (checked under Spec)

\* C24: the run cache that --cache resolves to, and that is sent as cacheId
\* to start_run, is not listed with status DELETED or FAILED.
C24_NoDeletedOrFailedCache ==
    \A i \in Invocations :
        LET r == inv[i]
        IN  (/\ r.tool = "run"
             /\ ~IsNone(r.args.cache)
             /\ r.pc \in {"start_run", "print", "done"}) =>
                /\ OptValue(r.args.cache_id) \in 1..Len(catalog.caches)
                /\ catalog.caches[OptValue(r.args.cache_id)].status
                       \notin {"DELETED", "FAILED"}
                /\ r.starts > 0 =>
                       catalog.caches[r.start_kwargs.options["cacheId"]].status
                           \notin {"DELETED", "FAILED"}

---------------------------------------------------------------------------
\* Build-only mode (checked under Spec)

\* an invocation of miniwdl-omics-run with --build
Build(r) == r.tool = "run" /\ r.build /\ r.pc # "off"

\* C25: an invocation with --build never calls start_run and never lists the
\* run caches; without role and output URI it passes main's validation; when
\* ensure has returned it prints the workflow id and exits with status 0 as
\* its next step, whatever --cache-behavior or --cache say; an exit status 1
\* is only given before ensure is called.
C25_BuildNeverStarts ==
    \A i \in Invocations :
        LET r == inv[i]
        IN  Build(r) =>
              /\ r.starts = 0
              /\ r.pc # "start_run"
              /\ r.printed # "run"
              /\ ~Has(r.calls, "start_run")
              /\ ~Has(r.calls, "list_run_caches")
              /\ r.start_kwargs.workflowId = None
              /\ (IsNone(r.args.role) /\ IsNone(r.args.role_arn)
                     /\ IsNone(r.args.output_uri)
                     /\ r.args.doc_ok /\ ~r.args.inputs_given) =>
                     /\ validate(r.args, r.build) = "ok"
                     /\ r.exit = "1" => Has(r.calls, "list_run_groups")
              /\ r.exit = "1" => ~Has(r.calls, "list_workflows")
              /\ r.pc = "done" =>
                     /\ r.printed = "build"
                     /\ r.exit = "0"
                     /\ r.workflow_id # None
                     /\ Ready(r.last_wf)
                     /\ IF r.legacy THEN r.calls[Len(r.calls)] = "awaited_workflow"
                        ELSE r.calls[Len(r.calls)]
                                 \in {"get_workflow_version", "awaited_version"}
              /\ r.printed = "build" => r.pc = "done"

\* a build given --cache-behavior without a cache, and neither role nor
\* output URI, created the workflow and its version and printed the id
C25_Witness ==
    /\ Build(inv["i1"])
    /\ inv["i1"].pc = "done"
    /\ inv["i1"].printed = "build"
    /\ ~IsNone(inv["i1"].args.cache_behavior)
    /\ IsNone(inv["i1"].args.role_arn)
    /\ inv["i1"].creates_wf = 1
    /\ inv["i1"].creates_ver = 1

====
